---- MODULE Spec2Model ----
(***************************************************************************)
(* Progressive Disclosure in mask-kernel: the skill registry               *)
(* (mask/core/registry.py), the activation reducer (mask/core/state.py),   *)
(* the session data model (mask/session/session.py), the disclosure        *)
(* middleware (mask/middleware/skill_middleware.py) and the agent turn     *)
(* loop (mask/agent/base_agent.py).                                        *)
(*                                                                         *)
(* The specifications share the variables:                                 *)
(*   Spec         the registry: register / unregister and the two tool     *)
(*                queries;                                                 *)
(*   SpecReducer  skill_list_reducer applied to bounded argument lists;    *)
(*   SpecSession  one conversation: Session.skills_loaded and the          *)
(*                SkillState.skills_loaded channel;                        *)
(*   SpecAgent    SimpleAgent.invoke, turn after turn, on one session;     *)
(*   SpecAssoc    two nestings of skill_list_reducer over three lists;     *)
(*   SpecLookup   the registry with get and has and a history of the       *)
(*                successful register / unregister calls;                  *)
(*   SpecCallback the activation callback next to a changing registry;     *)
(*   SpecInstr    get_active_skill_instructions;                           *)
(*   SpecMiddleware  SkillMiddleware.prepare_messages on a built state;    *)
(*   SpecDiscovery   discover_from_directory on a directory listing        *)
(*                (mask/loader/python_loader.py, skill_md_loader.py);      *)
(*   SpecDiscoveryRoot  the same scan, with entries that resolve inside    *)
(*                or outside the scanned root;                             *)
(*   SpecMetadata SkillMetadata construction and SKILL.md loading with     *)
(*                names and descriptions around the length limits          *)
(*                (mask/core/skill.py);                                    *)
(*   SpecLoader   loader tool calls next to a conversation;                *)
(*   SpecMiddlewareFlag  prepare_messages under both values of             *)
(*                include_skill_instructions;                              *)
(*   SpecStore    concurrent callers of get_or_create and invoke on one    *)
(*                MemorySessionStore (mask/storage).                       *)
(***************************************************************************)
EXTENDS Integers, Sequences, FiniteSets, TLC

\* ---------------------------------------------------------------- bounds

\* Most capability tools one skill's get_tools() returns.
MaxTools == 2
\* Longest active_names list handed to a registry query.
MaxActive == 2
\* Longest argument list handed to skill_list_reducer.
MaxLen == 3
\* Turns of the agent loop that are followed.
MaxTurns == 2
\* Longest message list a state holds.
MaxMsgs == 3
\* Most entries of a scanned skills directory.
MaxEntries == 3

\* Longest skill name and longest description handed to SkillMetadata.
MaxNameLen == 66
MaxDescLen == 1026
\* Concurrent callers of invoke on one session id.
NumCallers == 2
\* Longest list handed to a nested merge.
MaxAssocLen == 2

\* Names skills are registered under.
SkillNames == {"a", "b", "c"}
\* A name no skill of the pool carries.
UnknownName == "x"
\* Names that may appear in an activation list.
ActiveNames == SkillNames \cup {UnknownName}

\* The callers, and the Session objects: caller c creates object c.
Callers == 1..NumCallers
\* None, where a Session object is expected.
NoSession == 0

\* ---------------------------------------------------------------- helpers

Range(s) == {s[i] : i \in DOMAIN s}

\* All sequences over S of length at most n.
SeqsUpTo(S, n) == UNION {[1..k -> S] : k \in 0..n}

NoDup(s) == \A i, j \in DOMAIN s : i # j => s[i] # s[j]

Reverse(s) == [i \in 1..Len(s) |-> s[Len(s) + 1 - i]]

\* Index of the first occurrence of x in s (x occurs in s).
FirstIdx(s, x) == CHOOSE i \in DOMAIN s : s[i] = x /\ \A j \in 1..(i - 1) : s[j] # x

\* ---------------------------------------------------------------- state

VARIABLES
    skills,         \* SkillRegistry._skills: the skills in dict (insertion) order
    before,         \* history: <<m, n>> when m's registration in effect precedes n's
    op,             \* the operation that ran last
    err,            \* the exception the last operation raised, or "none"
    active_arg,     \* active_skills argument of the last tool query
    ret_tools,      \* tool list the last tool query returned
    current,        \* skill_list_reducer: argument current
    new,            \* skill_list_reducer: argument new
    result,         \* skill_list_reducer: returned list
    session_skills, \* Session.skills_loaded
    state_skills,   \* SkillState.skills_loaded (channel with skill_list_reducer)
    name_arg,       \* skill_name argument of the last session / callback operation
    pc,             \* SimpleAgent.invoke: position inside the turn
    turn,           \* SimpleAgent.invoke: number of the running turn
    turn_state,     \* SimpleAgent.invoke: state["skills_loaded"] built for the turn
    turn_tools,     \* SimpleAgent.invoke: tools handed to the graph for the turn
    invoked,        \* skills whose loader tool the model invoked in this turn
    prev_invoked,   \* skills whose loader tool the model invoked in the turn before
    session_msgs,   \* Session.messages, as the list of message types
    third,          \* nested merge: the list merged last
    left,           \* nested merge: skill_list_reducer(skill_list_reducer(a, b), c)
    right,          \* nested merge: skill_list_reducer(a, skill_list_reducer(b, c))
    skill_arg,      \* skill argument of the last register call, as a list of one
    key_arg,        \* name argument of the last unregister / get / has call
    ret_get,        \* skill the last get call returned, as a list of one
    ret_has,        \* value the last has call returned
    last_reg,       \* history: per name, the skill of the register call in effect
    ret_update,     \* state update the last activation callback returned
    ret_text,       \* text the last get_active_skill_instructions call returned
    state_msgs,     \* SkillState.messages: the list object the state holds
    ret_msgs,       \* list the last prepare_messages call returned
    ret_is_state_list, \* whether that list is the list object the state holds
    dir_entries,    \* directory listing the last discover_from_directory call scanned
    ret_count,      \* integer the last discover_from_directory call returned
    meta_name,      \* SkillMetadata(...): the name passed in
    meta_desc,      \* SkillMetadata(...): the description passed in
    meta,           \* the SkillMetadata constructed last, as a list of one
    include_skill_instructions, \* SkillMiddleware.include_skill_instructions
    sessions,       \* MemorySessionStore._sessions[session_id]: a Session object, or none
    session_log,    \* per Session object, the callers whose messages it holds
    caller_pc,      \* per caller of invoke, its position
    caller_session  \* per caller of invoke, the Session object it holds, or none

regVars == <<skills, before, err, active_arg, ret_tools>>
redVars == <<current, new, result>>
convVars == <<session_skills, state_skills, name_arg>>
agentVars == <<pc, turn, turn_state, turn_tools, invoked, prev_invoked, session_msgs>>
assocVars == <<third, left, right>>
lookVars == <<skill_arg, key_arg, ret_get, ret_has, last_reg>>
cbVars == <<ret_update>>
instrVars == <<ret_text>>
msgVars == <<state_msgs, ret_msgs, ret_is_state_list>>
discVars == <<dir_entries, ret_count>>
\* The variables of the specifications that follow SpecAgent.
extVars == <<assocVars, lookVars, cbVars, instrVars, msgVars, discVars>>
metaVars == <<meta_name, meta_desc, meta>>
flagVars == <<include_skill_instructions>>
storeVars == <<sessions, session_log, caller_pc, caller_session>>
\* The variables of the specifications that follow SpecDiscovery.
ext2Vars == <<metaVars, flagVars, storeVars>>
vars == <<skills, before, op, err, active_arg, ret_tools, current, new, result,
          session_skills, state_skills, name_arg, pc, turn, turn_state,
          turn_tools, invoked, prev_invoked, session_msgs, extVars, ext2Vars>>

\* ---------------------------------------------------------------- skills

\* A skill: metadata.name, metadata.enabled and the number of capability
\* tools its get_tools() returns: none for a MarkdownSkill, MaxTools for a
\* programmatic skill.
ToolCounts == {0, MaxTools}
SkillPool == [name : SkillNames, enabled : BOOLEAN, ntools : ToolCounts]

\* BaseSkill.get_loader_tool(): the single loader tool of a skill.
get_loader_tool(skill) == [kind |-> "loader", skill |-> skill.name, idx |-> 0]

\* BaseSkill.get_tools(): the capability tools, in the order the skill lists them.
get_tools(skill) ==
    [i \in 1..skill.ntools |-> [kind |-> "cap", skill |-> skill.name, idx |-> i]]

\* ---------------------------------------------------------------- registry

\* SkillRegistry.__init__
EmptyRegistry == <<>>

\* skill_name in self._skills
has(sk, skill_name) == \E i \in DOMAIN sk : sk[i].name = skill_name

\* self._skills[name] = skill, for a name that is not yet a key: a dict keeps
\* insertion order, so the new key comes last.
dict_insert_first(sk, skill) == <<skill>> \o sk
dict_insert(sk, skill) == Append(sk, skill)

\* Variant of `del self._skills[skill_name]` that drops the oldest key.
dict_delete_first(sk, skill_name) == Tail(sk)

\* del self._skills[skill_name]: the remaining keys keep their order.
dict_delete(sk, skill_name) ==
    LET keep == {i \in DOMAIN sk : sk[i].name # skill_name}
        nth(k) == CHOOSE i \in keep : Cardinality({j \in keep : j < i}) = k - 1
    IN [k \in 1..Cardinality(keep) |-> sk[nth(k)]]

\* The order of the registrations in effect, read off the dict: <<m, n>> when
\* m's key precedes n's.
registration_order(sk) ==
    {<<sk[p[1]].name, sk[p[2]].name>> :
        p \in {q \in (DOMAIN sk) \X (DOMAIN sk) : q[1] < q[2]}}

\* SkillRegistry.get: the skill stored under a registered name.
get(sk, skill_name) == sk[CHOOSE i \in DOMAIN sk : sk[i].name = skill_name]

\* SkillRegistry.get_all_loader_tools
RECURSIVE loader_tools_loop(_, _, _)
loader_tools_loop(sk, i, tools) ==
    IF i > Len(sk) THEN tools
    ELSE loader_tools_loop(sk, i + 1,
            IF sk[i].enabled THEN Append(tools, get_loader_tool(sk[i])) ELSE tools)

get_all_loader_tools_unfiltered(sk) ==
    [i \in 1..Len(sk) |-> get_loader_tool(sk[i])]
get_all_loader_tools(sk) == loader_tools_loop(sk, 1, <<>>)

\* SkillRegistry.get_tools_for_active_skills
RECURSIVE active_tools_loop(_, _, _, _)
active_tools_loop(sk, active_skills, i, tools) ==
    IF i > Len(sk) THEN tools
    ELSE IF ~sk[i].enabled
         THEN active_tools_loop(sk, active_skills, i + 1, tools)
         ELSE LET with_loader == Append(tools, get_loader_tool(sk[i]))
              IN active_tools_loop(sk, active_skills, i + 1,
                    IF sk[i].name \in Range(active_skills)
                    THEN with_loader \o get_tools(sk[i])
                    ELSE with_loader)

\* Variant without the activation gate: every enabled skill's capability tools.
get_tools_ungated(sk, active_skills) ==
    active_tools_loop(sk, [i \in 1..Len(sk) |-> sk[i].name], 1, <<>>)

\* Variant that lists only the active skills, loaders included.
get_tools_active_only(sk, active_skills) ==
    active_tools_loop(SelectSeq(sk, LAMBDA s : s.name \in Range(active_skills)),
                      active_skills, 1, <<>>)

\* Variant that opens the capability tools of the name activated last only.
get_tools_latest_only(sk, active_skills) ==
    active_tools_loop(sk,
                      IF active_skills = <<>> THEN <<>>
                      ELSE <<active_skills[Len(active_skills)]>>,
                      1, <<>>)

get_tools_for_active_skills(sk, active_skills) ==
    active_tools_loop(sk, active_skills, 1, <<>>)

\* ---------------------------------------------------------------- reducer

\* skill_list_reducer: the loop over new, with the set seen and the list result.
RECURSIVE reducer_loop(_, _, _, _)
reducer_loop(new_skills, i, seen, res) ==
    IF i > Len(new_skills) THEN res
    ELSE IF new_skills[i] \notin seen
         THEN reducer_loop(new_skills, i + 1, seen \cup {new_skills[i]},
                           Append(res, new_skills[i]))
         ELSE reducer_loop(new_skills, i + 1, seen, res)

\* Variant that puts the newly seen names in front of current.
skill_list_reducer_new_first(cur, new_skills) ==
    reducer_loop(new_skills, 1, Range(cur), <<>>) \o cur

\* Variant that appends new without looking at seen.
skill_list_reducer_no_dedupe(cur, new_skills) == cur \o new_skills

\* Variant that walks new from its end.
skill_list_reducer_backwards(cur, new_skills) ==
    reducer_loop(Reverse(new_skills), 1, Range(cur), cur)

\* Variant that starts with an empty seen set: seen = set().
skill_list_reducer_seen_empty(cur, new_skills) ==
    reducer_loop(new_skills, 1, {}, cur)

\* skill_list_reducer(current, new): seen = set(current), result = list(current).
skill_list_reducer(cur, new_skills) ==
    reducer_loop(new_skills, 1, Range(cur), cur)

\* ---------------------------------------------------------------- instructions

\* Text is a list of pieces: the empty string is the empty list and
\* concatenation is \o.
EmptyText == <<>>

\* The text a skill's SKILL.md body or get_instructions() override holds.
InstructionTexts == {EmptyText, <<"instructions">>}

\* A skill with its instructions: a MarkdownSkill has no capability tools.
InstrPool == [name : SkillNames, enabled : BOOLEAN, ntools : {0},
              instr : InstructionTexts]

\* MarkdownSkill.get_instructions()
get_instructions(skill) == skill.instr

\* f"## {skill.metadata.name}\n\n{instructions}"
instructions_section(skill) ==
    <<"## ", skill.name, "\n\n">> \o get_instructions(skill)

\* "\n\n---\n\n"
SectionSeparator == <<"\n\n---\n\n">>

\* sep.join(parts)
RECURSIVE str_join(_, _)
str_join(sep, parts) ==
    IF parts = <<>> THEN EmptyText
    ELSE IF Len(parts) = 1 THEN parts[1]
    ELSE parts[1] \o sep \o str_join(sep, Tail(parts))

\* SkillRegistry.get_active_skill_instructions: the loop over active_skills
\* that fills instructions_parts.
RECURSIVE instructions_loop(_, _, _, _)
instructions_loop(sk, active_skills, i, parts) ==
    IF i > Len(active_skills) THEN parts
    ELSE IF /\ has(sk, active_skills[i])
            /\ get(sk, active_skills[i]).enabled
            /\ get_instructions(get(sk, active_skills[i])) # EmptyText
         THEN instructions_loop(sk, active_skills, i + 1,
                    Append(parts, instructions_section(get(sk, active_skills[i]))))
         ELSE instructions_loop(sk, active_skills, i + 1, parts)

\* Variant that walks the registry and emits the active skills it meets.
get_active_skill_instructions_registry_order(sk, active_skills) ==
    str_join(SectionSeparator,
             instructions_loop(sk,
                [i \in 1..Len(SelectSeq(sk, LAMBDA s : s.name \in Range(active_skills)))
                    |-> SelectSeq(sk, LAMBDA s : s.name \in Range(active_skills))[i].name],
                1, <<>>))

get_active_skill_instructions(sk, active_skills) ==
    LET instructions_parts == instructions_loop(sk, active_skills, 1, <<>>)
    IN IF instructions_parts = <<>> THEN EmptyText
       ELSE str_join(SectionSeparator, instructions_parts)

\* ---------------------------------------------------------------- messages and the skills prompt

\* The content of a message: a string, or a list of content blocks.
StrContent(text) == [kind |-> "str", text |-> text]
BlocksContent(text) == [kind |-> "blocks", text |-> text]

\* SystemMessage(content=...)
SystemMessage(content) == [type |-> "system", content |-> content]

\* The messages a conversation state may hold.
MsgPool ==
    {SystemMessage(StrContent(<<"system prompt">>)),
     SystemMessage(BlocksContent(<<"system block">>)),
     [type |-> "human", content |-> StrContent(<<"question">>)],
     [type |-> "ai", content |-> StrContent(<<"answer">>)]}

\* str(original_content): a string is itself, a list of blocks is rendered
\* between brackets.
str_of_content(content) ==
    IF content.kind = "str" THEN content.text
    ELSE <<"[">> \o content.text \o <<"]">>

\* SkillMetadata.description
metadata_description(skill) == <<"description of ", skill.name>>

\* The loop of build_skills_system_prompt over the skills summary: one line
\* per enabled skill, in registry order.
RECURSIVE summary_lines_loop(_, _, _, _)
summary_lines_loop(sk, active_skills, i, lines) ==
    IF i > Len(sk) THEN lines
    ELSE IF sk[i].enabled
         THEN summary_lines_loop(sk, active_skills, i + 1,
                Append(lines,
                    <<"- **", sk[i].name, "** (",
                      IF sk[i].name \in Range(active_skills) THEN "ACTIVE" ELSE "available",
                      "): ">> \o metadata_description(sk[i])))
         ELSE summary_lines_loop(sk, active_skills, i + 1, lines)

\* build_skills_system_prompt(registry, active_skills)
build_skills_system_prompt(sk, active_skills) ==
    LET summary_lines ==
            IF sk # <<>>
            THEN summary_lines_loop(sk, active_skills, 1,
                    << <<"## Available Skills">>,
                       EmptyText,
                       <<"You have access to the following skills. Use the corresponding ">>,
                       <<"use_<skill_name> tool to activate a skill and receive detailed ">>,
                       <<"instructions for its use.">>,
                       EmptyText >>) \o <<EmptyText>>
            ELSE <<>>
        instructions == get_active_skill_instructions(sk, active_skills)
        active_lines ==
            IF active_skills # <<>>
            THEN << <<"## Active Skill Instructions">>, EmptyText >>
                    \o (IF instructions # EmptyText THEN <<instructions>> ELSE <<>>)
                    \o <<EmptyText>>
            ELSE <<>>
    IN str_join(<<"\n">>, summary_lines \o active_lines)

\* f"{skills_prompt}\n\n---\n\n{original_content}"
PromptSeparator == <<"\n\n---\n\n">>

\* inject_skills_into_messages(messages, skills_prompt) works on list
\* objects, so its outcome has three parts: ret is the returned list, arg the
\* argument list as the call leaves it, same_list whether the returned list
\* is the argument object.

\* Variant that sets the content of the existing system message in place.
inject_skills_in_place(messages, skills_prompt) ==
    IF skills_prompt = EmptyText
    THEN [ret |-> messages, arg |-> messages, same_list |-> FALSE]
    ELSE IF messages # <<>> /\ messages[1].type = "system"
         THEN LET merged == SystemMessage(StrContent(
                    skills_prompt \o PromptSeparator
                        \o str_of_content(messages[1].content)))
              IN [ret |-> <<merged>> \o Tail(messages),
                  arg |-> <<merged>> \o Tail(messages),
                  same_list |-> FALSE]
         ELSE [ret |-> <<SystemMessage(StrContent(skills_prompt))>> \o messages,
               arg |-> messages,
               same_list |-> FALSE]

\* Variant that replaces the existing system message by the skills prompt.
inject_skills_replacing(messages, skills_prompt) ==
    IF skills_prompt = EmptyText
    THEN [ret |-> messages, arg |-> messages, same_list |-> FALSE]
    ELSE IF messages # <<>> /\ messages[1].type = "system"
         THEN [ret |-> <<SystemMessage(StrContent(skills_prompt))>> \o Tail(messages),
               arg |-> messages,
               same_list |-> FALSE]
         ELSE [ret |-> <<SystemMessage(StrContent(skills_prompt))>> \o messages,
               arg |-> messages,
               same_list |-> FALSE]

inject_skills_into_messages(messages, skills_prompt) ==
    IF skills_prompt = EmptyText
    THEN \* return list(messages)
         [ret |-> messages, arg |-> messages, same_list |-> FALSE]
    ELSE \* messages_list = list(messages)
         IF messages # <<>> /\ messages[1].type = "system"
         THEN \* messages_list[0] = SystemMessage(content=new_content)
              [ret |-> <<SystemMessage(StrContent(
                            skills_prompt \o PromptSeparator
                                \o str_of_content(messages[1].content)))>>
                        \o Tail(messages),
               arg |-> messages,
               same_list |-> FALSE]
         ELSE \* messages_list.insert(0, SystemMessage(content=skills_prompt))
              [ret |-> <<SystemMessage(StrContent(skills_prompt))>> \o messages,
               arg |-> messages,
               same_list |-> FALSE]

\* ---------------------------------------------------------------- discovery

\* One entry of the skills directory, as iterdir() yields it: a file or a
\* directory, its name hidden (leading ".") or not, what loading its skill.py
\* and parsing its SKILL.md come to, and the skill name they declare.
Entry(kind, hidden, py, md, name) ==
    [kind |-> kind, hidden |-> hidden, py |-> py, md |-> md, name |-> name]

EntryPool ==
    {Entry("dir", FALSE, "absent", "ok", "a"),
     Entry("dir", FALSE, "absent", "ok", "b"),
     Entry("dir", FALSE, "ok", "absent", "a"),
     Entry("dir", FALSE, "ok", "ok", "b"),
     Entry("dir", FALSE, "exec_error", "ok", "a"),
     Entry("dir", FALSE, "exec_error", "absent", "c"),
     Entry("dir", FALSE, "absent", "no_frontmatter", "c"),
     Entry("dir", FALSE, "absent", "no_description", "c"),
     Entry("dir", FALSE, "absent", "bad_name", "c"),
     Entry("dir", FALSE, "absent", "unexpected", "c"),
     Entry("dir", FALSE, "absent", "absent", "c"),
     Entry("dir", TRUE, "absent", "ok", "b"),
     Entry("file", FALSE, "absent", "absent", "c")}

\* The skill a skill.py defines and the skill a SKILL.md declares.
PythonSkill(name) == [name |-> name, enabled |-> TRUE, ntools |-> MaxTools]
MarkdownSkill(name) == [name |-> name, enabled |-> TRUE, ntools |-> 0]

\* What a loader call comes to: the skill it returns (none for None) and the
\* exception it raises ("none" when it returns).
Returns(skill) == [skill |-> skill, exc |-> "none"]
Raises(exc) == [skill |-> <<>>, exc |-> exc]

\* load_python_skill(skill_dir)
load_python_skill(entry) ==
    IF entry.py = "absent" THEN Returns(<<>>)
    ELSE IF entry.py = "exec_error" THEN Raises("SkillLoadError")
    ELSE Returns(<<PythonSkill(entry.name)>>)

\* parse_skill_md(skill_md_path): the exception it raises, "none" when it
\* returns the metadata and the instructions.
parse_skill_md(entry) ==
    IF entry.md = "no_frontmatter" THEN "SkillLoadError"
    ELSE IF entry.md = "no_description" THEN "SkillLoadError"
    ELSE IF entry.md = "bad_name" THEN "SkillMetadataError"
    ELSE IF entry.md = "unexpected" THEN "RecursionError"
    ELSE "none"

\* load_markdown_skill(skill_dir): SkillLoadError and SkillMetadataError are
\* caught and turned into None, any other exception passes.
load_markdown_skill(entry) ==
    IF entry.md = "absent" THEN Returns(<<>>)
    ELSE IF parse_skill_md(entry) \in {"SkillLoadError", "SkillMetadataError"}
         THEN Returns(<<>>)
    ELSE IF parse_skill_md(entry) # "none" THEN Raises(parse_skill_md(entry))
    ELSE Returns(<<MarkdownSkill(entry.name)>>)

\* What one pass of the loop comes to: the registry, the increment of count
\* and the exception that leaves the loop ("none" when the pass completes).
StepDone(sk, added) == [skills |-> sk, added |-> added, exc |-> "none"]
StepRaises(sk, exc) == [skills |-> sk, added |-> 0, exc |-> exc]

\* Variant whose registration replaces the skill registered under the name.
register_and_count_overwrite(sk, skill) ==
    IF skill = <<>> THEN StepDone(sk, 0)
    ELSE IF has(sk, skill[1].name)
         THEN StepDone([j \in DOMAIN sk |->
                            IF sk[j].name = skill[1].name THEN skill[1] ELSE sk[j]], 0)
    ELSE StepDone(dict_insert(sk, skill[1]), 1)

\* self.register(skill); count += 1 -- SkillAlreadyRegisteredError is caught.
register_and_count(sk, skill) ==
    IF skill = <<>> THEN StepDone(sk, 0)
    ELSE IF has(sk, skill[1].name) THEN StepDone(sk, 0)
    ELSE StepDone(dict_insert(sk, skill[1]), 1)

\* Variant without the try around load_python_skill: its exception leaves
\* the loop.
discover_step_unguarded(sk, entry) ==
    IF entry.kind # "dir" \/ entry.hidden THEN StepDone(sk, 0)
    ELSE IF load_python_skill(entry).exc # "none"
         THEN StepRaises(sk, load_python_skill(entry).exc)
    ELSE LET from_py == load_python_skill(entry).skill
             from_md == IF load_markdown_skill(entry).exc # "none" THEN <<>>
                        ELSE load_markdown_skill(entry).skill
         IN register_and_count(sk, IF from_py = <<>> THEN from_md ELSE from_py)

\* Variant that counts every loaded skill, registered or refused.
discover_step_counting_loaded(sk, entry) ==
    IF entry.kind # "dir" \/ entry.hidden THEN StepDone(sk, 0)
    ELSE LET from_py == IF load_python_skill(entry).exc # "none" THEN <<>>
                        ELSE load_python_skill(entry).skill
             from_md == IF load_markdown_skill(entry).exc # "none" THEN <<>>
                        ELSE load_markdown_skill(entry).skill
             skill == IF from_py = <<>> THEN from_md ELSE from_py
         IN [register_and_count(sk, skill) EXCEPT
                !.added = IF skill = <<>> THEN 0 ELSE 1]

\* Variant that tries SKILL.md first and skill.py when it yields nothing.
discover_step_markdown_first(sk, entry) ==
    IF entry.kind # "dir" \/ entry.hidden THEN StepDone(sk, 0)
    ELSE LET from_md == IF entry.md = "absent" THEN <<>>
                        ELSE IF load_markdown_skill(entry).exc # "none" THEN <<>>
                        ELSE load_markdown_skill(entry).skill
             skill == IF from_md = <<>> /\ entry.py # "absent"
                      THEN IF load_python_skill(entry).exc # "none" THEN <<>>
                           ELSE load_python_skill(entry).skill
                      ELSE from_md
         IN register_and_count(sk, skill)

\* The body of the loop of discover_from_directory for one entry.
discover_step(sk, entry) ==
    IF entry.kind # "dir" THEN StepDone(sk, 0)          \* not skill_dir.is_dir()
    ELSE IF entry.hidden THEN StepDone(sk, 0)           \* name starts with "."
    ELSE LET \* skill.py exists: try load_python_skill, except Exception
             from_py == IF entry.py = "absent" THEN <<>>
                        ELSE IF load_python_skill(entry).exc # "none" THEN <<>>
                        ELSE load_python_skill(entry).skill
             \* skill is None and SKILL.md exists: try load_markdown_skill,
             \* except Exception
             skill == IF from_py = <<>> /\ entry.md # "absent"
                      THEN IF load_markdown_skill(entry).exc # "none" THEN <<>>
                           ELSE load_markdown_skill(entry).skill
                      ELSE from_py
         IN register_and_count(sk, skill)

\* The loop over skills_dir.iterdir(): an exception that leaves a pass leaves
\* the call.
RECURSIVE discover_loop(_, _, _, _)
discover_loop(sk, entries, i, count) ==
    IF i > Len(entries) THEN [skills |-> sk, count |-> count, exc |-> "none"]
    ELSE LET step == discover_step(sk, entries[i])
         IN IF step.exc # "none"
            THEN [skills |-> step.skills, count |-> count, exc |-> step.exc]
            ELSE discover_loop(step.skills, entries, i + 1, count + step.added)

\* SkillRegistry.discover_from_directory(skills_dir): entries is the listing
\* of skills_dir, empty for a directory that does not exist.
discover_from_directory(sk, entries) == discover_loop(sk, entries, 1, 0)

\* ---------------------------------------------------------------- metadata

\* Skill specification constraints.
MAX_SKILL_NAME_LENGTH == 64
MAX_SKILL_DESCRIPTION_LENGTH == 1024

\* A string is the list of its characters. A name of n valid characters, and
\* a description of n characters that differ from place to place.
NameOfLen(n) == [i \in 1..n |-> "a"]
HyphenNameOfLen(n) == [i \in 1..n |-> IF i = 1 THEN "-" ELSE "a"]
DescOfLen(n) == [i \in 1..n |-> i % 7]

\* What a constructor call comes to.
Constructed(metadata) == [exc |-> "none", meta |-> <<metadata>>]
ConstructionRaises(exc) == [exc |-> exc, meta |-> <<>>]

\* Variant of __post_init__ that refuses a name of the maximal length.
SkillMetadata_strict(name, description) ==
    IF Len(name) >= MAX_SKILL_NAME_LENGTH THEN ConstructionRaises("SkillMetadataError")
    ELSE Constructed([name |-> name,
                      description |->
                          IF Len(description) > MAX_SKILL_DESCRIPTION_LENGTH
                          THEN SubSeq(description, 1, MAX_SKILL_DESCRIPTION_LENGTH)
                          ELSE description])

\* Variant of __post_init__ that keeps the end of a long description.
SkillMetadata_keep_tail(name, description) ==
    IF Len(name) > MAX_SKILL_NAME_LENGTH THEN ConstructionRaises("SkillMetadataError")
    ELSE Constructed([name |-> name,
                      description |->
                          IF Len(description) > MAX_SKILL_DESCRIPTION_LENGTH
                          THEN SubSeq(description,
                                      Len(description) - MAX_SKILL_DESCRIPTION_LENGTH + 1,
                                      Len(description))
                          ELSE description])

\* SkillMetadata(name=..., description=...): the dataclass __init__ followed
\* by __post_init__.
SkillMetadata(name, description) ==
    IF Len(name) > MAX_SKILL_NAME_LENGTH THEN ConstructionRaises("SkillMetadataError")
    ELSE Constructed([name |-> name,
                      description |->
                          IF Len(description) > MAX_SKILL_DESCRIPTION_LENGTH
                          THEN SubSeq(description, 1, MAX_SKILL_DESCRIPTION_LENGTH)
                          ELSE description])

\* re.match(r"^[a-z0-9]+(-[a-z0-9]+)*$", name): segments of letters and
\* digits with single hyphens between them.
name_pattern_matches(name) ==
    /\ name # <<>>
    /\ name[1] # "-"
    /\ name[Len(name)] # "-"
    /\ \A i \in 1..(Len(name) - 1) : ~(name[i] = "-" /\ name[i + 1] = "-")

\* _validate_skill_name(name, directory_name): is_valid.
validate_skill_name(name) ==
    IF name = <<>> THEN FALSE
    ELSE IF Len(name) > MAX_SKILL_NAME_LENGTH THEN FALSE
    ELSE IF ~name_pattern_matches(name) THEN FALSE
    ELSE TRUE

\* parse_skill_md from the check of the required fields on: the required
\* fields, the name, the truncation of the description, the metadata.
parse_frontmatter(name, description) ==
    IF name = <<>> \/ description = <<>> THEN ConstructionRaises("SkillLoadError")
    ELSE IF ~validate_skill_name(name) THEN ConstructionRaises("SkillMetadataError")
    ELSE SkillMetadata(name,
                       IF Len(description) > MAX_SKILL_DESCRIPTION_LENGTH
                       THEN SubSeq(description, 1, MAX_SKILL_DESCRIPTION_LENGTH)
                       ELSE description)

\* ---------------------------------------------------------------- session and state

\* list.remove(x): drops the first occurrence of x (x occurs in s).
list_remove(s, x) ==
    LET i == FirstIdx(s, x)
    IN SubSeq(s, 1, i - 1) \o SubSeq(s, i + 1, Len(s))

\* Variant of activate_skill that toggles: an active name is taken out.
session_activate_toggle(loaded, skill_name) ==
    IF skill_name \notin Range(loaded) THEN Append(loaded, skill_name)
    ELSE list_remove(loaded, skill_name)

\* Session.activate_skill: skills_loaded after the call.
session_activate(loaded, skill_name) ==
    IF skill_name \notin Range(loaded) THEN Append(loaded, skill_name) ELSE loaded

\* Session.deactivate_skill: skills_loaded after the call.
session_deactivate(loaded, skill_name) ==
    IF skill_name \in Range(loaded) THEN list_remove(loaded, skill_name) ELSE loaded

\* The state update a node returns: a mapping from channel names to values.
EmptyUpdate == <<>>
SkillsUpdate(names) == [k \in {"skills_loaded"} |-> names]

\* Variant of the callback that does not ask the registry.
activate_skill_callback_unchecked(sk, skill_name) == SkillsUpdate(<<skill_name>>)

\* The callback of SkillMiddleware.create_skill_activation_callback.
activate_skill_callback(sk, skill_name) ==
    IF has(sk, skill_name) THEN SkillsUpdate(<<skill_name>>) ELSE EmptyUpdate

\* SkillState.skills_loaded is annotated with skill_list_reducer: an update
\* that carries the key is merged by the reducer, any other leaves it alone.
apply_update(loaded, update) ==
    IF "skills_loaded" \in DOMAIN update
    THEN skill_list_reducer(loaded, update["skills_loaded"])
    ELSE loaded

\* ---------------------------------------------------------------- loader tools

\* What a tool call comes to: the value the tool returns and the state
\* update it hands to the graph (a tool that returns a str hands none).
ToolResult(ret, update) == [ret |-> ret, update |-> update]

\* Variant of the loader that also records the activation.
loader_activating(skill) ==
    ToolResult(get_instructions(skill), SkillsUpdate(<<skill.name>>))

\* The loader() tool MarkdownSkill.get_loader_tool builds: it returns the
\* instructions the skill was constructed with.
loader(skill) == ToolResult(skill.instr, EmptyUpdate)

\* The loader() tool create_loader_tool_with_activation builds for
\* registry.get(skill_name): it returns skill.get_instructions().
loader_with_activation(skill) == ToolResult(get_instructions(skill), EmptyUpdate)

\* ---------------------------------------------------------------- middleware and agent

\* filter_tools_for_state (SkillMiddleware.get_tools): the registry's tools for
\* state["skills_loaded"], followed by the additional tools.
filter_tools_for_state(sk, loaded, additional_tools) ==
    get_tools_for_active_skills(sk, loaded) \o additional_tools

\* BaseAgent._build_state: the skills_loaded entry of the state
\* (`skills_loaded or []`).
build_state(loaded) == loaded

\* BaseAgent.additional_tools: none configured.
AdditionalTools == <<>>

\* ---------------------------------------------------------------- registry operations

NoQuery == /\ active_arg' = <<>>
           /\ ret_tools' = <<>>

\* Variant of register that replaces the skill stored under a taken name.
Register_overwrite(skill) ==
    /\ op' = "register"
    /\ err' = "none"
    /\ skills' = IF has(skills, skill.name)
                 THEN [i \in DOMAIN skills |->
                          IF skills[i].name = skill.name THEN skill ELSE skills[i]]
                 ELSE dict_insert(skills, skill)
    /\ before' = before \cup {<<skills[i].name, skill.name>> :
                                i \in {j \in DOMAIN skills : skills[j].name # skill.name}}
    /\ NoQuery

\* SkillRegistry.register
Register(skill) ==
    /\ op' = "register"
    /\ IF has(skills, skill.name)
       THEN /\ err' = "SkillAlreadyRegisteredError"
            /\ UNCHANGED <<skills, before>>
       ELSE /\ err' = "none"
            /\ skills' = dict_insert(skills, skill)
            /\ before' = before \cup {<<skills[i].name, skill.name>> : i \in DOMAIN skills}
    /\ NoQuery

\* Variant of unregister that ignores a name that is not registered.
Unregister_lenient(skill_name) ==
    /\ op' = "unregister"
    /\ err' = "none"
    /\ skills' = dict_delete(skills, skill_name)
    /\ before' = {p \in before : p[1] # skill_name /\ p[2] # skill_name}
    /\ NoQuery

\* SkillRegistry.unregister
Unregister(skill_name) ==
    /\ op' = "unregister"
    /\ IF ~has(skills, skill_name)
       THEN /\ err' = "SkillNotFoundError"
            /\ UNCHANGED <<skills, before>>
       ELSE /\ err' = "none"
            /\ skills' = dict_delete(skills, skill_name)
            /\ before' = {p \in before : p[1] # skill_name /\ p[2] # skill_name}
    /\ NoQuery

\* A call of SkillRegistry.get_all_loader_tools()
GetAllLoaderTools ==
    /\ op' = "get_all_loader_tools"
    /\ err' = "none"
    /\ active_arg' = <<>>
    /\ ret_tools' = get_all_loader_tools(skills)
    /\ UNCHANGED <<skills, before>>

\* A call of SkillRegistry.get_tools_for_active_skills(active_skills)
GetToolsForActiveSkills(active_skills) ==
    /\ op' = "get_tools_for_active_skills"
    /\ err' = "none"
    /\ active_arg' = active_skills
    /\ ret_tools' = get_tools_for_active_skills(skills, active_skills)
    /\ UNCHANGED <<skills, before>>

\* SkillRegistry.get(skill_name)
Get(skill_name) ==
    /\ op' = "get"
    /\ IF ~has(skills, skill_name)
       THEN /\ err' = "SkillNotFoundError"
            /\ ret_get' = <<>>
       ELSE /\ err' = "none"
            /\ ret_get' = <<get(skills, skill_name)>>
    /\ UNCHANGED <<skills, before>>
    /\ NoQuery

\* SkillRegistry.has(skill_name)
Has(skill_name) ==
    /\ op' = "has"
    /\ err' = "none"
    /\ ret_has' = has(skills, skill_name)
    /\ UNCHANGED <<skills, before>>
    /\ NoQuery

\* A call of SkillRegistry.get_active_skill_instructions(active_skills)
GetActiveSkillInstructions(active_skills) ==
    /\ op' = "get_active_skill_instructions"
    /\ err' = "none"
    /\ active_arg' = active_skills
    /\ ret_tools' = <<>>
    /\ ret_text' = get_active_skill_instructions(skills, active_skills)
    /\ UNCHANGED <<skills, before>>

\* A call of SkillRegistry.discover_from_directory on the directory whose
\* listing is dir_entries.
Discover ==
    /\ op' = "discover_from_directory"
    /\ LET call == discover_from_directory(skills, dir_entries)
       IN /\ skills' = call.skills
          /\ before' = registration_order(call.skills)
          /\ err' = call.exc
          /\ ret_count' = IF call.exc = "none" THEN call.count ELSE 0
    /\ NoQuery
    /\ UNCHANGED dir_entries

\* ---------------------------------------------------------------- initial values

RegistryStart ==
    /\ skills = EmptyRegistry
    /\ before = {}
    /\ err = "none"
    /\ active_arg = <<>>
    /\ ret_tools = <<>>

ReducerIdle ==
    /\ current = <<>>
    /\ new = <<>>
    /\ result = <<>>

ConversationStart ==
    /\ session_skills = <<>>
    /\ state_skills = <<>>
    /\ name_arg = ""

AgentIdle ==
    /\ pc = "idle"
    /\ turn = 0
    /\ turn_state = <<>>
    /\ turn_tools = <<>>
    /\ invoked = {}
    /\ prev_invoked = {}
    /\ session_msgs = <<>>

AssocIdle ==
    /\ third = <<>>
    /\ left = <<>>
    /\ right = <<>>

LookupIdle ==
    /\ skill_arg = <<>>
    /\ key_arg = ""
    /\ ret_get = <<>>
    /\ ret_has = FALSE
    /\ last_reg = [n \in ActiveNames |-> <<>>]

CallbackIdle == ret_update = <<>>

InstructionsIdle == ret_text = <<>>

MessagesIdle ==
    /\ state_msgs = <<>>
    /\ ret_msgs = <<>>
    /\ ret_is_state_list = FALSE

DiscoveryIdle ==
    /\ dir_entries = <<>>
    /\ ret_count = 0

ExtIdle ==
    /\ AssocIdle
    /\ LookupIdle
    /\ CallbackIdle
    /\ InstructionsIdle
    /\ MessagesIdle
    /\ DiscoveryIdle

MetadataIdle ==
    /\ meta_name = <<>>
    /\ meta_desc = <<>>
    /\ meta = <<>>

\* SkillMiddleware.__init__: include_skill_instructions defaults to True.
FlagDefault == include_skill_instructions = TRUE

StoreIdle ==
    /\ sessions = NoSession
    /\ session_log = [s \in Callers |-> {}]
    /\ caller_pc = [c \in Callers |-> "idle"]
    /\ caller_session = [c \in Callers |-> NoSession]

Ext2Idle ==
    /\ MetadataIdle
    /\ FlagDefault
    /\ StoreIdle

\* ---------------------------------------------------------------- Spec: the registry

Init ==
    /\ op = "init"
    /\ RegistryStart
    /\ ReducerIdle
    /\ ConversationStart
    /\ AgentIdle
    /\ Ext2Idle
    /\ ExtIdle

RegisterAny == \E skill \in SkillPool : Register(skill)
UnregisterAny == \E skill_name \in ActiveNames : Unregister(skill_name)
QueryAny == \E active_skills \in SeqsUpTo(ActiveNames, MaxActive) :
                GetToolsForActiveSkills(active_skills)

Next ==
    \/ RegisterAny /\ UNCHANGED <<ext2Vars, extVars, redVars, convVars, agentVars>>
    \/ UnregisterAny /\ UNCHANGED <<ext2Vars, extVars, redVars, convVars, agentVars>>
    \/ GetAllLoaderTools /\ UNCHANGED <<ext2Vars, extVars, redVars, convVars, agentVars>>
    \/ QueryAny /\ UNCHANGED <<ext2Vars, extVars, redVars, convVars, agentVars>>

Spec == Init /\ [][Next]_vars

\* ---------------------------------------------------------------- SpecReducer

\* Argument lists of skill_list_reducer: any list of names, repeats included.
ReducerLists == SeqsUpTo(SkillNames, MaxLen)

InitReducer ==
    /\ op = "reducer_args"
    /\ current \in ReducerLists
    /\ new \in ReducerLists
    /\ result = <<>>
    /\ RegistryStart
    /\ ConversationStart
    /\ AgentIdle
    /\ Ext2Idle
    /\ ExtIdle

\* The call skill_list_reducer(current, new).
CallReducer ==
    /\ op = "reducer_args"
    /\ op' = "skill_list_reducer"
    /\ result' = skill_list_reducer(current, new)
    /\ UNCHANGED <<current, new>>

\* The returned list becomes the current of the next call, as it does for the
\* skills_loaded channel of SkillState.
FeedBack(new_skills) ==
    /\ op = "skill_list_reducer"
    /\ Len(result) <= MaxLen
    /\ op' = "reducer_args"
    /\ current' = result
    /\ new' = new_skills
    /\ result' = <<>>

FeedBackAny == \E new_skills \in ReducerLists : FeedBack(new_skills)

NextReducer ==
    \/ CallReducer /\ UNCHANGED <<ext2Vars, extVars, regVars, convVars, agentVars>>
    \/ FeedBackAny /\ UNCHANGED <<ext2Vars, extVars, regVars, convVars, agentVars>>

SpecReducer == InitReducer /\ [][NextReducer]_vars

\* ---------------------------------------------------------------- SpecSession

\* Session.activate_skill(skill_name)
SessionActivateSkill(skill_name) ==
    /\ op' = "activate_skill"
    /\ name_arg' = skill_name
    /\ session_skills' = session_activate(session_skills, skill_name)
    /\ UNCHANGED state_skills

\* Session.deactivate_skill(skill_name)
SessionDeactivateSkill(skill_name) ==
    /\ op' = "deactivate_skill"
    /\ name_arg' = skill_name
    /\ session_skills' = session_deactivate(session_skills, skill_name)
    /\ UNCHANGED state_skills

\* The activation callback runs for skill_name and the update it returns is
\* applied to the state.
ActivationCallback(skill_name) ==
    /\ op' = "activation_callback"
    /\ name_arg' = skill_name
    /\ state_skills' = apply_update(state_skills, activate_skill_callback(skills, skill_name))
    /\ UNCHANGED session_skills

\* An update {"skills_loaded": new} is applied to the state.
ReducerMerge(new_skills) ==
    /\ op' = "reducer_merge"
    /\ name_arg' = ""
    /\ state_skills' = apply_update(state_skills, SkillsUpdate(new_skills))
    /\ UNCHANGED session_skills

\* The skills a conversation works with: enabled, with capability tools.
ConvPool == {skill \in SkillPool : skill.enabled /\ skill.ntools = MaxTools}

NextSession ==
    \/ (\E skill \in ConvPool : Register(skill))
            /\ UNCHANGED <<ext2Vars, extVars, redVars, convVars, agentVars>>
    \/ (\E skill_name \in SkillNames : Unregister(skill_name))
            /\ UNCHANGED <<ext2Vars, extVars, redVars, convVars, agentVars>>
    \/ (\E skill_name \in SkillNames : SessionActivateSkill(skill_name))
            /\ UNCHANGED <<ext2Vars, extVars, regVars, redVars, agentVars>>
    \/ (\E skill_name \in SkillNames : SessionDeactivateSkill(skill_name))
            /\ UNCHANGED <<ext2Vars, extVars, regVars, redVars, agentVars>>
    \/ (\E skill_name \in SkillNames : ActivationCallback(skill_name))
            /\ UNCHANGED <<ext2Vars, extVars, regVars, redVars, agentVars>>
    \/ (\E new_skills \in SeqsUpTo(SkillNames, MaxActive) : ReducerMerge(new_skills))
            /\ UNCHANGED <<ext2Vars, extVars, regVars, redVars, agentVars>>

SpecSession == Init /\ [][NextSession]_vars

\* ---------------------------------------------------------------- SpecAgent

\* SimpleAgent.invoke up to the call of the graph: the session is fetched, the
\* state is built from session.skills_loaded, the tools are filtered for it and
\* the graph is created with them.
StartTurn ==
    /\ pc = "idle"
    /\ turn < MaxTurns
    /\ op' = "invoke"
    /\ turn' = turn + 1
    /\ turn_state' = build_state(session_skills)
    /\ turn_tools' = filter_tools_for_state(skills, build_state(session_skills),
                                            AdditionalTools)
    /\ prev_invoked' = invoked
    /\ invoked' = {}
    /\ pc' = "graph"
    /\ UNCHANGED <<session_skills, session_msgs>>

\* Inside the graph the model calls the loader tool of a skill, one of the
\* tools the graph was created with: the tool returns the instructions.
InvokeLoader(t) ==
    /\ pc = "graph"
    /\ t.kind = "loader"
    /\ op' = "invoke_loader"
    /\ invoked' = invoked \cup {t.skill}
    /\ UNCHANGED <<pc, turn, turn_state, turn_tools, prev_invoked,
                   session_skills, session_msgs>>

\* Inside the graph the model calls a capability tool it was given.
InvokeCapability(t) ==
    /\ pc = "graph"
    /\ t.kind = "cap"
    /\ op' = "invoke_capability"
    /\ UNCHANGED <<pc, turn, turn_state, turn_tools, invoked, prev_invoked,
                   session_skills, session_msgs>>

\* SimpleAgent.invoke after the graph returned: the human and the AI message
\* are added to the session and the session is saved.
FinishTurn ==
    /\ pc = "graph"
    /\ op' = "invoke_return"
    /\ session_msgs' = session_msgs \o <<"human", "ai">>
    /\ pc' = "idle"
    /\ UNCHANGED <<turn, turn_state, turn_tools, invoked, prev_invoked, session_skills>>

\* Between turns the application may register skills and may mark a skill
\* active on the stored session.
NextAgent ==
    \/ (pc = "idle" /\ \E skill \in ConvPool : Register(skill))
            /\ UNCHANGED <<ext2Vars, extVars, redVars, convVars, agentVars>>
    \/ (pc = "idle" /\ \E skill_name \in SkillNames : SessionActivateSkill(skill_name))
            /\ UNCHANGED <<ext2Vars, extVars, regVars, redVars, agentVars>>
    \/ StartTurn /\ UNCHANGED <<ext2Vars, extVars, regVars, redVars, state_skills, name_arg>>
    \/ (\E i \in DOMAIN turn_tools : InvokeLoader(turn_tools[i]))
            /\ UNCHANGED <<ext2Vars, extVars, regVars, redVars, state_skills, name_arg>>
    \/ (\E i \in DOMAIN turn_tools : InvokeCapability(turn_tools[i]))
            /\ UNCHANGED <<ext2Vars, extVars, regVars, redVars, state_skills, name_arg>>
    \/ FinishTurn /\ UNCHANGED <<ext2Vars, extVars, regVars, redVars, state_skills, name_arg>>

SpecAgent == Init /\ [][NextAgent]_vars

\* ---------------------------------------------------------------- SpecAssoc

\* Argument lists of a nested merge: any list of names, repeats included.
AssocLists == SeqsUpTo(SkillNames, MaxAssocLen)

\* Three lists a, b, c: current, new and third.
InitAssoc ==
    /\ op = "assoc_args"
    /\ current \in AssocLists
    /\ new \in AssocLists
    /\ third \in AssocLists
    /\ result = <<>>
    /\ left = <<>>
    /\ right = <<>>
    /\ RegistryStart
    /\ ConversationStart
    /\ AgentIdle
    /\ Ext2Idle
    /\ LookupIdle
    /\ CallbackIdle
    /\ InstructionsIdle
    /\ MessagesIdle
    /\ DiscoveryIdle

\* Two updates applied one after the other: b is merged into a, then c into
\* the list that merge returned.
MergeLeft ==
    /\ op = "assoc_args"
    /\ op' = "merge_left"
    /\ result' = skill_list_reducer(current, new)
    /\ left' = skill_list_reducer(result', third)
    /\ UNCHANGED <<current, new, third, right>>

\* The two updates combined first: c is merged into b, then the combined
\* list into a.
MergeRight ==
    /\ op = "merge_left"
    /\ op' = "merge_right"
    /\ result' = skill_list_reducer(new, third)
    /\ right' = skill_list_reducer(current, result')
    /\ UNCHANGED <<current, new, third, left>>

NextAssoc ==
    \/ MergeLeft /\ UNCHANGED <<ext2Vars, regVars, convVars, agentVars, lookVars, cbVars,
                                instrVars, msgVars, discVars>>
    \/ MergeRight /\ UNCHANGED <<ext2Vars, regVars, convVars, agentVars, lookVars, cbVars,
                                 instrVars, msgVars, discVars>>

SpecAssoc == InitAssoc /\ [][NextAssoc]_vars

\* ---------------------------------------------------------------- SpecLookup

\* A register call; the history keeps the skill when the call succeeded.
RegisterCall(skill) ==
    /\ Register(skill)
    /\ skill_arg' = <<skill>>
    /\ key_arg' = ""
    /\ ret_get' = <<>>
    /\ ret_has' = FALSE
    /\ last_reg' = IF err' = "none"
                   THEN [last_reg EXCEPT ![skill.name] = <<skill>>]
                   ELSE last_reg

\* An unregister call; the history forgets the name when the call succeeded.
UnregisterCall(skill_name) ==
    /\ Unregister(skill_name)
    /\ skill_arg' = <<>>
    /\ key_arg' = skill_name
    /\ ret_get' = <<>>
    /\ ret_has' = FALSE
    /\ last_reg' = IF err' = "none"
                   THEN [last_reg EXCEPT ![skill_name] = <<>>]
                   ELSE last_reg

\* A get call.
GetCall(skill_name) ==
    /\ Get(skill_name)
    /\ skill_arg' = <<>>
    /\ key_arg' = skill_name
    /\ ret_has' = FALSE
    /\ UNCHANGED last_reg

\* A has call.
HasCall(skill_name) ==
    /\ Has(skill_name)
    /\ skill_arg' = <<>>
    /\ key_arg' = skill_name
    /\ ret_get' = <<>>
    /\ UNCHANGED last_reg

NextLookup ==
    \/ (\E skill \in SkillPool : RegisterCall(skill))
            /\ UNCHANGED <<ext2Vars, redVars, convVars, agentVars, assocVars, cbVars,
                           instrVars, msgVars, discVars>>
    \/ (\E skill_name \in ActiveNames : UnregisterCall(skill_name))
            /\ UNCHANGED <<ext2Vars, redVars, convVars, agentVars, assocVars, cbVars,
                           instrVars, msgVars, discVars>>
    \/ (\E skill_name \in ActiveNames : GetCall(skill_name))
            /\ UNCHANGED <<ext2Vars, redVars, convVars, agentVars, assocVars, cbVars,
                           instrVars, msgVars, discVars>>
    \/ (\E skill_name \in ActiveNames : HasCall(skill_name))
            /\ UNCHANGED <<ext2Vars, redVars, convVars, agentVars, assocVars, cbVars,
                           instrVars, msgVars, discVars>>

SpecLookup == Init /\ [][NextLookup]_vars

\* ---------------------------------------------------------------- SpecCallback

\* The activation callback is called with skill_name: it returns an update
\* without raising, and the graph applies the update to the state.
CallbackCall(skill_name) ==
    /\ ActivationCallback(skill_name)
    /\ ret_update' = activate_skill_callback(skills, skill_name)
    /\ err' = "none"
    /\ UNCHANGED <<skills, before, active_arg, ret_tools>>

\* A state whose skills_loaded is written by activation callbacks only, next
\* to a registry that gains and loses skills.
NextCallback ==
    \/ (\E skill \in ConvPool : Register(skill))
            /\ UNCHANGED <<ext2Vars, redVars, convVars, agentVars, extVars>>
    \/ (\E skill_name \in SkillNames : Unregister(skill_name))
            /\ UNCHANGED <<ext2Vars, redVars, convVars, agentVars, extVars>>
    \/ (\E skill_name \in ActiveNames : CallbackCall(skill_name))
            /\ UNCHANGED <<ext2Vars, redVars, agentVars, assocVars, lookVars, instrVars,
                           msgVars, discVars>>

SpecCallback == Init /\ [][NextCallback]_vars

\* ---------------------------------------------------------------- SpecInstr

NextInstr ==
    \/ (\E skill \in InstrPool : Register(skill))
            /\ UNCHANGED <<ext2Vars, redVars, convVars, agentVars, extVars>>
    \/ (\E skill_name \in SkillNames : Unregister(skill_name))
            /\ UNCHANGED <<ext2Vars, redVars, convVars, agentVars, extVars>>
    \/ (\E active_skills \in SeqsUpTo(ActiveNames, MaxActive) :
            GetActiveSkillInstructions(active_skills))
            /\ UNCHANGED <<ext2Vars, redVars, convVars, agentVars, assocVars, lookVars,
                           cbVars, msgVars, discVars>>

SpecInstr == Init /\ [][NextInstr]_vars

\* ---------------------------------------------------------------- SpecMiddleware

\* SkillMiddleware.prepare_messages(state), messages left at None: the
\* messages are state["messages"], the prompt is built for
\* state["skills_loaded"] and injected. The state's list object is left as
\* inject_skills_into_messages leaves its argument.
PrepareMessages ==
    /\ op = "build_state"
    /\ op' = "prepare_messages"
    /\ LET messages == state_msgs
           active_skills == state_skills
           skills_prompt == build_skills_system_prompt(skills, active_skills)
           call == inject_skills_into_messages(messages, skills_prompt)
       IN /\ ret_msgs' = call.ret
          /\ state_msgs' = call.arg
          /\ ret_is_state_list' = call.same_list
    /\ UNCHANGED state_skills

\* The skills a middleware registry holds, and the registries made of them:
\* the skills in registration order, no name twice.
MwNames == {"a", "b"}
MwPool == {skill \in InstrPool : skill.name \in MwNames}
MwRegistries ==
    {sk \in SeqsUpTo(MwPool, Cardinality(MwNames)) :
        \A i, j \in DOMAIN sk : i # j => sk[i].name # sk[j].name}

\* A registry filled by register calls and a state built by _build_state
\* from any message list and any list of active names.
InitMiddleware ==
    /\ op = "build_state"
    /\ skills \in MwRegistries
    /\ before = registration_order(skills)
    /\ err = "none"
    /\ active_arg = <<>>
    /\ ret_tools = <<>>
    /\ state_msgs \in SeqsUpTo(MsgPool, MaxMsgs)
    /\ state_skills \in SeqsUpTo({"a", UnknownName}, MaxActive)
    /\ session_skills = <<>>
    /\ name_arg = ""
    /\ ret_msgs = <<>>
    /\ ret_is_state_list = FALSE
    /\ ReducerIdle
    /\ AgentIdle
    /\ Ext2Idle
    /\ AssocIdle
    /\ LookupIdle
    /\ CallbackIdle
    /\ InstructionsIdle
    /\ DiscoveryIdle

NextMiddleware ==
    PrepareMessages /\ UNCHANGED <<ext2Vars, regVars, redVars, session_skills, name_arg,
                                   agentVars, assocVars, lookVars, cbVars,
                                   instrVars, discVars>>

SpecMiddleware == InitMiddleware /\ [][NextMiddleware]_vars

\* ---------------------------------------------------------------- SpecDiscovery

\* The registries a scan starts from: none, one or both of a declarative
\* skill a and a programmatic skill b, in either order.
DiscRegistries ==
    {sk \in SeqsUpTo({MarkdownSkill("a"), PythonSkill("b")}, 2) :
        \A i, j \in DOMAIN sk : i # j => sk[i].name # sk[j].name}

InitDiscovery ==
    /\ op = "scan_args"
    /\ skills \in DiscRegistries
    /\ before = registration_order(skills)
    /\ err = "none"
    /\ active_arg = <<>>
    /\ ret_tools = <<>>
    /\ dir_entries \in SeqsUpTo(EntryPool, MaxEntries)
    /\ ret_count = 0
    /\ ReducerIdle
    /\ ConversationStart
    /\ AgentIdle
    /\ Ext2Idle
    /\ AssocIdle
    /\ LookupIdle
    /\ CallbackIdle
    /\ InstructionsIdle
    /\ MessagesIdle

\* The directory is scanned, and may be scanned again.
NextDiscovery ==
    Discover /\ UNCHANGED <<ext2Vars, redVars, convVars, agentVars, assocVars, lookVars,
                            cbVars, instrVars, msgVars>>

SpecDiscovery == InitDiscovery /\ [][NextDiscovery]_vars

\* ---------------------------------------------------------------- SpecDiscoveryRoot

\* A directory entry together with where it resolves: outside is true for a
\* symlink (or a name with "..") that leads out of the scanned root.
RootedEntry(entry, outside) ==
    [kind |-> entry.kind, hidden |-> entry.hidden, py |-> entry.py,
     md |-> entry.md, name |-> entry.name, outside |-> outside]

RootedPool ==
    {RootedEntry(entry, outside) :
        entry \in {Entry("dir", FALSE, "absent", "ok", "a"),
                   Entry("dir", FALSE, "absent", "ok", "b"),
                   Entry("dir", FALSE, "ok", "absent", "b"),
                   Entry("dir", FALSE, "absent", "no_description", "c")},
        outside \in BOOLEAN}

\* _is_safe_path(path, base_dir): path.resolve() is relative to
\* base_dir.resolve(). discover_markdown_skills and discover_python_skills
\* call it for every entry; discover_from_directory does not.
is_safe_path(entry) == ~entry.outside

InitDiscoveryRoot ==
    /\ op = "scan_args"
    /\ skills \in DiscRegistries
    /\ before = registration_order(skills)
    /\ err = "none"
    /\ active_arg = <<>>
    /\ ret_tools = <<>>
    /\ dir_entries \in SeqsUpTo(RootedPool, MaxEntries)
    /\ ret_count = 0
    /\ ReducerIdle
    /\ ConversationStart
    /\ AgentIdle
    /\ Ext2Idle
    /\ AssocIdle
    /\ LookupIdle
    /\ CallbackIdle
    /\ InstructionsIdle
    /\ MessagesIdle

SpecDiscoveryRoot == InitDiscoveryRoot /\ [][NextDiscovery]_vars

\* ---------------------------------------------------------------- SpecLoader

\* The declarative skills whose loader tools are offered.
LoaderPool == {skill \in InstrPool : skill.enabled}

\* The loader tool of a registered skill is invoked, built either by the
\* skill (get_loader_tool) or by create_loader_tool_with_activation; the
\* update of the call, if any, is applied to the state.
InvokeLoaderTool(skill_name, builder) ==
    /\ has(skills, skill_name)
    /\ op' = "loader_tool"
    /\ name_arg' = skill_name
    /\ err' = "none"
    /\ LET call == IF builder = "get_loader_tool"
                   THEN loader(get(skills, skill_name))
                   ELSE loader_with_activation(get(skills, skill_name))
       IN /\ ret_text' = call.ret
          /\ state_skills' = apply_update(state_skills, call.update)
    /\ UNCHANGED <<skills, before, active_arg, ret_tools, session_skills>>

\* A registry of declarative skills next to one conversation, whose lists of
\* activated skills the callback and the session write.
NextLoader ==
    \/ (\E skill \in LoaderPool : Register(skill))
            /\ UNCHANGED <<ext2Vars, redVars, convVars, agentVars, extVars>>
    \/ (\E skill_name \in SkillNames : ActivationCallback(skill_name))
            /\ UNCHANGED <<ext2Vars, extVars, regVars, redVars, agentVars>>
    \/ (\E skill_name \in SkillNames : SessionActivateSkill(skill_name))
            /\ UNCHANGED <<ext2Vars, extVars, regVars, redVars, agentVars>>
    \/ (\E skill_name \in SkillNames,
           builder \in {"get_loader_tool", "create_loader_tool_with_activation"} :
            InvokeLoaderTool(skill_name, builder))
            /\ UNCHANGED <<ext2Vars, redVars, agentVars, assocVars, lookVars, cbVars,
                           msgVars, discVars>>

SpecLoader == Init /\ [][NextLoader]_vars

\* ---------------------------------------------------------------- SpecMiddlewareFlag

\* A middleware constructed with either value of include_skill_instructions,
\* a registry filled by register calls and a state of at most one message.
InitMiddlewareFlag ==
    /\ op = "build_state"
    /\ include_skill_instructions \in BOOLEAN
    /\ skills \in MwRegistries
    /\ before = registration_order(skills)
    /\ err = "none"
    /\ active_arg = <<>>
    /\ ret_tools = <<>>
    /\ state_msgs \in SeqsUpTo(MsgPool, 1)
    /\ state_skills \in SeqsUpTo({"a", UnknownName}, MaxActive)
    /\ session_skills = <<>>
    /\ name_arg = ""
    /\ ret_msgs = <<>>
    /\ ret_is_state_list = FALSE
    /\ ReducerIdle
    /\ AgentIdle
    /\ MetadataIdle
    /\ StoreIdle
    /\ AssocIdle
    /\ LookupIdle
    /\ CallbackIdle
    /\ InstructionsIdle
    /\ DiscoveryIdle

\* prepare_messages does not read self.include_skill_instructions.
SpecMiddlewareFlag == InitMiddlewareFlag /\ [][NextMiddleware]_vars

\* ---------------------------------------------------------------- SpecStore

\* Callers of SimpleAgent.invoke with one session_id on one agent whose store
\* is a MemorySessionStore. A Session object is named by the caller that
\* constructed it. A caller moves from one await to the next in one step,
\* and another caller may run between two of its steps: get and save take
\* the store's lock one after the other, no lock spans the two, and callers
\* on different threads or event loops are scheduled freely between them.

\* session = await self.get(session_id), in get_or_create: the stored object
\* or None.
StoreGet(c) ==
    /\ caller_pc[c] = "idle"
    /\ op' = "get"
    /\ caller_session' = [caller_session EXCEPT ![c] = sessions]
    /\ caller_pc' = [caller_pc EXCEPT ![c] = IF sessions = NoSession THEN "create"
                                             ELSE "returned"]
    /\ UNCHANGED <<sessions, session_log>>

\* session is None: session = Session(session_id=session_id, **defaults);
\* await self.save(session); return session.
StoreCreate(c) ==
    /\ caller_pc[c] = "create"
    /\ op' = "create"
    /\ caller_session' = [caller_session EXCEPT ![c] = c]
    /\ sessions' = c
    /\ caller_pc' = [caller_pc EXCEPT ![c] = "returned"]
    /\ UNCHANGED session_log

\* result = await self._invoke_with_session_context(...)
InvokeGraph(c) ==
    /\ caller_pc[c] = "returned"
    /\ op' = "graph"
    /\ caller_pc' = [caller_pc EXCEPT ![c] = "responded"]
    /\ UNCHANGED <<sessions, session_log, caller_session>>

\* session.add_message(HumanMessage(...)); session.add_message(AIMessage(...))
AddMessages(c) ==
    /\ caller_pc[c] = "responded"
    /\ op' = "add_message"
    /\ session_log' = [session_log EXCEPT ![caller_session[c]] = @ \cup {c}]
    /\ caller_pc' = [caller_pc EXCEPT ![c] = "added"]
    /\ UNCHANGED <<sessions, caller_session>>

\* await self._save_session(session): self._sessions[session_id] = session
SaveSession(c) ==
    /\ caller_pc[c] = "added"
    /\ op' = "save"
    /\ sessions' = caller_session[c]
    /\ caller_pc' = [caller_pc EXCEPT ![c] = "done"]
    /\ UNCHANGED <<session_log, caller_session>>

InitStore ==
    /\ op = "init"
    /\ RegistryStart
    /\ ReducerIdle
    /\ ConversationStart
    /\ AgentIdle
    /\ ExtIdle
    /\ MetadataIdle
    /\ FlagDefault
    /\ StoreIdle

NextStore ==
    \/ (\E c \in Callers : StoreGet(c))
            /\ UNCHANGED <<regVars, redVars, convVars, agentVars, extVars, metaVars, flagVars>>
    \/ (\E c \in Callers : StoreCreate(c))
            /\ UNCHANGED <<regVars, redVars, convVars, agentVars, extVars, metaVars, flagVars>>
    \/ (\E c \in Callers : InvokeGraph(c))
            /\ UNCHANGED <<regVars, redVars, convVars, agentVars, extVars, metaVars, flagVars>>
    \/ (\E c \in Callers : AddMessages(c))
            /\ UNCHANGED <<regVars, redVars, convVars, agentVars, extVars, metaVars, flagVars>>
    \/ (\E c \in Callers : SaveSession(c))
            /\ UNCHANGED <<regVars, redVars, convVars, agentVars, extVars, metaVars, flagVars>>

SpecStore == InitStore /\ [][NextStore]_vars

\* ---------------------------------------------------------------- SpecMetadata

\* Lengths around the two limits, and the shortest ones.
NameLens == {0, 1} \cup ((MAX_SKILL_NAME_LENGTH - 2)..MaxNameLen)
DescLens == {0, 1} \cup ((MAX_SKILL_DESCRIPTION_LENGTH - 2)..MaxDescLen)

InitMetadata ==
    /\ op = "metadata_args"
    /\ meta_name \in {NameOfLen(n) : n \in NameLens}
                      \cup {HyphenNameOfLen(n) : n \in NameLens}
    /\ meta_desc \in {DescOfLen(n) : n \in DescLens}
    /\ meta = <<>>
    /\ RegistryStart
    /\ ReducerIdle
    /\ ConversationStart
    /\ AgentIdle
    /\ ExtIdle
    /\ FlagDefault
    /\ StoreIdle

\* A call SkillMetadata(name=meta_name, description=meta_desc).
ConstructMetadata ==
    /\ op = "metadata_args"
    /\ op' = "SkillMetadata"
    /\ LET call == SkillMetadata(meta_name, meta_desc)
       IN /\ err' = call.exc
          /\ meta' = call.meta
    /\ UNCHANGED <<skills, before, active_arg, ret_tools, meta_name, meta_desc>>

\* A SKILL.md that declares meta_name and meta_desc is loaded by
\* load_markdown_skill, which turns SkillLoadError and SkillMetadataError into
\* None, and the skill it returns is registered.
LoadSkillMd ==
    /\ op = "metadata_args"
    /\ op' = "load_markdown_skill"
    /\ LET parsed == parse_frontmatter(meta_name, meta_desc)
       IN /\ err' = "none"
          /\ meta' = parsed.meta
          /\ skills' = IF parsed.meta = <<>> THEN skills
                       ELSE dict_insert(skills, MarkdownSkill(parsed.meta[1].name))
    /\ UNCHANGED <<before, active_arg, ret_tools, meta_name, meta_desc>>

NextMetadata ==
    \/ ConstructMetadata /\ UNCHANGED <<redVars, convVars, agentVars, extVars,
                                        flagVars, storeVars>>
    \/ LoadSkillMd /\ UNCHANGED <<redVars, convVars, agentVars, extVars,
                                  flagVars, storeVars>>

SpecMetadata == InitMetadata /\ [][NextMetadata]_vars

\* ---------------------------------------------------------------- claims on the registry

IsQuery == op = "get_tools_for_active_skills"

\* The registered skill a tool record names, by the loop's dict key.
Owner(t) == CHOOSE j \in DOMAIN skills : skills[j].name = t.skill

\* C1. Capability gating: a capability tool of skill S is in the list
\* get_tools_for_active_skills(active_names) returns only if S is registered,
\* S.metadata.enabled is true and S's name is in active_names.
C1_CapabilityGating ==
    IsQuery =>
        \A i \in DOMAIN ret_tools :
            ret_tools[i].kind = "cap" =>
                /\ \E j \in DOMAIN skills :
                        /\ skills[j].name = ret_tools[i].skill
                        /\ skills[j].enabled
                /\ ret_tools[i].skill \in Range(active_arg)

\* A query with active_names = [a] that returned capability tools of a while
\* another enabled skill with capability tools is registered and not active.
C1_Witness ==
    /\ IsQuery
    /\ active_arg = <<"a">>
    /\ \E i \in DOMAIN ret_tools : ret_tools[i].kind = "cap" /\ ret_tools[i].skill = "a"
    /\ \E j \in DOMAIN skills :
            skills[j].name = "b" /\ skills[j].enabled /\ skills[j].ntools > 0

\* C2. Loaders are always visible: whatever active_names holds, the returned
\* list has the loader tool of every registered enabled skill exactly once,
\* and as many loaders as there are registered enabled skills.
C2_LoadersAlwaysVisible ==
    IsQuery =>
        /\ \A j \in DOMAIN skills :
                skills[j].enabled =>
                    Cardinality({i \in DOMAIN ret_tools :
                                    ret_tools[i] = get_loader_tool(skills[j])}) = 1
        /\ Cardinality({i \in DOMAIN ret_tools : ret_tools[i].kind = "loader"})
              = Cardinality({j \in DOMAIN skills : skills[j].enabled})

\* A query whose active_names holds an unknown name twice, on a registry with
\* two enabled skills and a disabled one.
C2_Witness ==
    /\ IsQuery
    /\ active_arg = <<UnknownName, UnknownName>>
    /\ Cardinality({j \in DOMAIN skills : skills[j].enabled}) = 2
    /\ Cardinality({j \in DOMAIN skills : ~skills[j].enabled}) = 1
    /\ Len(ret_tools) = 2

\* C3. Tool-list ordering: skills appear in the order of the register calls
\* still in effect; each skill's loader comes first, immediately followed by
\* its capability tools in get_tools() order; the order of the names inside
\* active_names does not matter.
C3_ToolListOrdering ==
    IsQuery =>
        /\ ret_tools # <<>> => ret_tools[1].kind = "loader"
        /\ \A p \in DOMAIN ret_tools :
                ret_tools[p].kind = "loader" =>
                    LET S == skills[Owner(ret_tools[p])]
                        caps == IF S.name \in Range(active_arg) THEN get_tools(S) ELSE <<>>
                        n == Len(caps)
                    IN /\ p + n <= Len(ret_tools)
                       /\ \A k \in 1..n : ret_tools[p + k] = caps[k]
                       /\ p + n + 1 <= Len(ret_tools) => ret_tools[p + n + 1].kind = "loader"
        /\ \A p, q \in DOMAIN ret_tools :
                (p < q /\ ret_tools[p].kind = "loader" /\ ret_tools[q].kind = "loader")
                    => <<ret_tools[p].skill, ret_tools[q].skill>> \in before
        /\ get_tools_for_active_skills(skills, Reverse(active_arg)) = ret_tools

\* A query with active_names = [a, b] on a registry where b was registered
\* before a: b's loader and capability tools precede a's.
C3_Witness ==
    /\ IsQuery
    /\ active_arg = <<"a", "b">>
    /\ Len(skills) = 3
    /\ <<"b", "a">> \in before
    /\ \E p, q \in DOMAIN ret_tools :
            /\ p < q
            /\ ret_tools[p] = [kind |-> "cap", skill |-> "b", idx |-> MaxTools]
            /\ ret_tools[q] = [kind |-> "loader", skill |-> "a", idx |-> 0]
            /\ q + MaxTools = Len(ret_tools)

\* C4. A skill whose metadata.enabled is false contributes no tool to
\* get_all_loader_tools() and no tool, loader or capability, to
\* get_tools_for_active_skills(active_names), active or not.
C4_DisabledExcluded ==
    (IsQuery \/ op = "get_all_loader_tools") =>
        \A j \in DOMAIN skills :
            ~skills[j].enabled =>
                \A i \in DOMAIN ret_tools : ret_tools[i].skill # skills[j].name

\* A query that names a registered disabled skill with capability tools as
\* active and still returned tools of other skills only.
C4_Witness ==
    /\ IsQuery
    /\ ret_tools # <<>>
    /\ \E j \in DOMAIN skills :
            /\ ~skills[j].enabled
            /\ skills[j].ntools > 0
            /\ skills[j].name \in Range(active_arg)

\* ---------------------------------------------------------------- claims on the reducer

Returned == op = "skill_list_reducer"

IsPrefix(s, t) == Len(s) <= Len(t) /\ \A i \in DOMAIN s : t[i] = s[i]

\* C5. Monotonic merge: skill_list_reducer(current, new) has current as a
\* prefix, so no name of current is removed or reordered.
C5_MonotonicMerge == Returned => IsPrefix(current, result)

\* A merge that appended a name behind a current of two names.
C5_Witness ==
    /\ Returned
    /\ Len(current) = 2
    /\ Len(result) > Len(current)

\* C8. Idempotent merge: merging new once more into the returned list returns
\* it unchanged; merging [A] into a list that contains A changes nothing.
C8_IdempotentMerge ==
    Returned =>
        /\ skill_list_reducer(result, new) = result
        /\ (Len(new) = 1 /\ new[1] \in Range(current)) => result = current

\* Activating a twice from the empty list: the second merge of [a] into [a].
C8_Witness ==
    /\ Returned
    /\ current = <<"a">>
    /\ new = <<"a">>
    /\ result = <<"a">>

\* C9. First-seen order: the returned list is current followed by the names
\* of new that are not in current, each once, ordered by their first
\* occurrence in new.
C9_FirstSeenOrder ==
    Returned =>
        /\ IsPrefix(current, result)
        /\ LET added == SubSeq(result, Len(current) + 1, Len(result))
           IN /\ NoDup(added)
              /\ Range(added) = Range(new) \ Range(current)
              /\ \A i, j \in DOMAIN added :
                    i < j => FirstIdx(new, added[i]) < FirstIdx(new, added[j])

\* Activating b and then a from the empty list gives [b, a], not [a, b].
C9_Witness ==
    /\ Returned
    /\ current = <<"b">>
    /\ new = <<"a">>
    /\ result = <<"b", "a">>

\* C10. Unique result: for all lists current and new, the list
\* skill_list_reducer(current, new) returns holds every name at most once.
C10_UniqueResult == Returned => NoDup(result)

\* ---------------------------------------------------------------- claims on the conversation

Loaded(loaded) == Range(loaded)

\* C6. No deactivation, as claimed: once a name is in a conversation's
\* activated-skill list it is in that list in every later state, whatever
\* operation runs (reducer merge, activation callback, Session.activate_skill,
\* Session.deactivate_skill).
C6_NoDeactivation ==
    [][/\ Loaded(session_skills) \subseteq Loaded(session_skills')
       /\ Loaded(state_skills) \subseteq Loaded(state_skills')]_vars

\* C6, amended. A name leaves an activated-skill list only by
\* Session.deactivate_skill called with that name: the reducer merge, the
\* activation callback and Session.activate_skill keep every name, and the
\* reducer-owned list of SkillState never loses one.
C6_OnlyDeactivateRemoves ==
    [][/\ Loaded(state_skills) \subseteq Loaded(state_skills')
       /\ \A n \in Loaded(session_skills) \ Loaded(session_skills') :
                op' = "deactivate_skill" /\ name_arg' = n]_vars

\* Session.activate_skill(b) ran on a session where b was already the first
\* of three active skills, next to a state that holds three merged names.
C6_Witness ==
    /\ op = "activate_skill"
    /\ name_arg = "b"
    /\ Len(session_skills) = 3
    /\ session_skills[1] = "b"
    /\ Len(state_skills) = 3

\* ---------------------------------------------------------------- claims on the agent loop

\* C7. Activation reaches the next turn: when the model invoked the loader
\* tool of a registered enabled skill S in the turn before, the state built
\* for this turn has S in skills_loaded and S's capability tools are among
\* the tools of this turn.
C7_ActivationReachesNextTurn ==
    (pc = "graph" /\ turn >= 2) =>
        \A j \in DOMAIN skills :
            (skills[j].enabled /\ skills[j].name \in prev_invoked) =>
                /\ skills[j].name \in Range(turn_state)
                /\ Range(get_tools(skills[j])) \subseteq Range(turn_tools)


\* ---------------------------------------------------------------- claims on nested merges

\* C11. Associative merge: for every duplicate-free list a and all lists b
\* and c, skill_list_reducer(skill_list_reducer(a, b), c) equals
\* skill_list_reducer(a, skill_list_reducer(b, c)).
C11_AssociativeMerge ==
    (op = "merge_right" /\ NoDup(current)) => left = right

\* Both nestings ran on a = [], b = [a], c = [a, b]: the name a reaches the
\* result from b and is met again in c.
C11_Witness ==
    /\ op = "merge_right"
    /\ current = <<>>
    /\ new = <<"a">>
    /\ third = <<"a", "b">>
    /\ left = <<"a", "b">>
    /\ right = <<"a", "b">>


\* ---------------------------------------------------------------- claims on registry lookups

\* C12. Duplicate registration: register(skill) with a name that is already a
\* key of the registry raises SkillAlreadyRegisteredError and leaves the
\* registry unchanged: get(name) still returns the first registered instance
\* and the number of skills is unchanged.
C12_DuplicateRegistration ==
    [][(op' = "register" /\ has(skills, skill_arg'[1].name)) =>
            LET name == skill_arg'[1].name
            IN /\ err' = "SkillAlreadyRegisteredError"
               /\ skills' = skills
               /\ Len(skills') = Len(skills)
               /\ has(skills', name)
               /\ <<get(skills', name)>> = last_reg[name]]_vars

\* A register call was refused for a skill that differs from the instance
\* registered under the same name, on a registry of two skills.
C12_Witness ==
    /\ op = "register"
    /\ err = "SkillAlreadyRegisteredError"
    /\ Len(skills) = 2
    /\ skill_arg # last_reg[skill_arg[1].name]
    /\ <<get(skills, skill_arg[1].name)>> = last_reg[skill_arg[1].name]

\* C13. Lookup consistency: after any sequence of register and unregister
\* calls, has(n) is true exactly when the most recent successful mutation for
\* the name n was a register, and then get(n) returns the skill passed to
\* that register call.
C13_LookupConsistency ==
    /\ \A n \in ActiveNames :
            /\ has(skills, n) <=> last_reg[n] # <<>>
            /\ has(skills, n) => <<get(skills, n)>> = last_reg[n]
    /\ op = "has" => ret_has = (last_reg[key_arg] # <<>>)
    /\ op = "get" => IF last_reg[key_arg] # <<>>
                     THEN err = "none" /\ ret_get = last_reg[key_arg]
                     ELSE err = "SkillNotFoundError"

\* get(a) returned the disabled skill registered under a, the younger of the
\* two registered skills, while b is not registered.
C13_Witness ==
    /\ op = "get"
    /\ key_arg = "a"
    /\ err = "none"
    /\ ret_get = <<[name |-> "a", enabled |-> FALSE, ntools |-> 0]>>
    /\ Len(skills) = 2
    /\ skills[2].name = "a"
    /\ last_reg["b"] = <<>>

\* C14. Missing skill: unregister(name) and get(name) for a name that is not
\* registered raise SkillNotFoundError and leave the registry unchanged;
\* has(name) never raises and returns false for such a name.
C14_MissingSkill ==
    [][/\ (op' \in {"unregister", "get"} /\ ~has(skills, key_arg')) =>
            /\ err' = "SkillNotFoundError"
            /\ skills' = skills
       /\ op' = "has" =>
            /\ err' = "none"
            /\ skills' = skills
            /\ ~has(skills, key_arg') => ret_has' = FALSE]_vars

\* unregister(b) was refused on a registry that holds a and c.
C14_Witness ==
    /\ op = "unregister"
    /\ key_arg = "b"
    /\ err = "SkillNotFoundError"
    /\ Len(skills) = 2
    /\ ~has(skills, "b")


\* ---------------------------------------------------------------- claims on the activation callback

\* C15. Activation callback: for a name known to the registry the callback
\* returns the delta {skills_loaded: [name]}; for a name not in the registry
\* it returns the empty delta and does not raise, and merging it leaves the
\* activated list unchanged. So a name enters a list that only callbacks
\* write, starting empty, only by a callback that ran for that name while the
\* name was registered.
C15_ActivationCallback ==
    [][/\ op' = "activation_callback" =>
            /\ err' = "none"
            /\ IF has(skills, name_arg')
               THEN /\ DOMAIN ret_update' = {"skills_loaded"}
                    /\ ret_update'["skills_loaded"] = <<name_arg'>>
               ELSE /\ DOMAIN ret_update' = {}
                    /\ state_skills' = state_skills
       /\ \A n \in Range(state_skills') \ Range(state_skills) :
            /\ op' = "activation_callback"
            /\ name_arg' = n
            /\ has(skills, n)]_vars

\* The callback ran for b, which is not registered, on a state that holds a,
\* activated while a was registered and unregistered since.
C15_Witness ==
    /\ op = "activation_callback"
    /\ name_arg = "b"
    /\ ret_update = EmptyUpdate
    /\ state_skills = <<"a">>
    /\ ~has(skills, "a")
    /\ ~has(skills, "b")
    /\ has(skills, "c")


\* ---------------------------------------------------------------- claims on instructions

\* The entries of active_names that get a section.
Emitting(n) ==
    \E j \in DOMAIN skills :
        /\ skills[j].name = n
        /\ skills[j].enabled
        /\ skills[j].instr # EmptyText

\* C16. get_active_skill_instructions(active_names) emits one section per
\* entry of active_names that is registered, enabled and has non-empty
\* instructions, in the order of active_names (not registry order), with the
\* separator between consecutive sections and nowhere else; it returns the
\* empty string when no entry qualifies. A section is the heading with the
\* skill's name followed by its instructions: four pieces, so that section k
\* starts at piece 5(k-1)+1 and separator k is piece 5k.
C16_ActiveInstructions ==
    op = "get_active_skill_instructions" =>
        LET emitted == SelectSeq(active_arg, Emitting)
            k == Len(emitted)
        IN /\ k = 0 => ret_text = EmptyText
           /\ k > 0 => Len(ret_text) = 5 * k - 1
           /\ \A i \in 1..k :
                /\ SubSeq(ret_text, 5 * i - 4, 5 * i - 1)
                      = <<"## ", emitted[i], "\n\n">>
                            \o get(skills, emitted[i]).instr
                /\ i < k => ret_text[5 * i] = SectionSeparator[1]

\* active_names = [b, a] on a registry that holds a before b, both enabled
\* with instructions: b's section comes first.
C16_Witness ==
    /\ op = "get_active_skill_instructions"
    /\ active_arg = <<"b", "a">>
    /\ <<"a", "b">> \in before
    /\ Len(skills) = 3
    /\ Len(ret_text) = 9
    /\ ret_text[2] = "b"
    /\ ret_text[7] = "a"


\* ---------------------------------------------------------------- claims on the middleware

\* C17. prepare_messages(state) leaves the stored state unchanged: after the
\* call the state's message list (length, order and the content of every
\* message, a leading system message included) and the state's skills_loaded
\* are what they were before, the registry is unchanged, and the result is
\* a new list.
C17_StateUnchanged ==
    [][op' = "prepare_messages" =>
            /\ state_msgs' = state_msgs
            /\ state_skills' = state_skills
            /\ skills' = skills
            /\ ~ret_is_state_list']_vars

\* prepare_messages ran on a state of three messages that starts with a
\* system message and has an active skill: the returned first message
\* differs from the stored one.
C17_Witness ==
    /\ op = "prepare_messages"
    /\ Len(state_msgs) = 3
    /\ state_msgs[1].type = "system"
    /\ state_skills # <<>>
    /\ Len(skills) = 2
    /\ ret_msgs[1] # state_msgs[1]

\* C18. Injection placement: whenever the skills text is non-empty, the list
\* prepare_messages returns starts with a system message carrying that text.
\* If the input starts with a system message the result has the same length
\* and its first message is the skills text, the separator, then the
\* original system content (rendered by str() when it is not a string);
\* otherwise the result is the input with one new system message inserted at
\* index 0. All other messages keep their content and relative order.
C18_InjectionPlacement ==
    LET skills_text == build_skills_system_prompt(skills, state_skills)
        n == Len(skills_text)
    IN (op = "prepare_messages" /\ skills_text # EmptyText) =>
        /\ ret_msgs # <<>>
        /\ ret_msgs[1].type = "system"
        /\ ret_msgs[1].content.kind = "str"
        /\ SubSeq(ret_msgs[1].content.text, 1, n) = skills_text
        /\ IF state_msgs # <<>> /\ state_msgs[1].type = "system"
           THEN /\ Len(ret_msgs) = Len(state_msgs)
                /\ ret_msgs[1].content.text =
                        skills_text \o PromptSeparator
                            \o str_of_content(state_msgs[1].content)
                /\ \A i \in 2..Len(state_msgs) : ret_msgs[i] = state_msgs[i]
           ELSE /\ Len(ret_msgs) = Len(state_msgs) + 1
                /\ ret_msgs[1].content.text = skills_text
                /\ \A i \in DOMAIN state_msgs : ret_msgs[i + 1] = state_msgs[i]

\* prepare_messages ran on [human, system, ai] with a non-empty registry: a
\* new system message comes first and the later system message is kept.
C18_Witness ==
    /\ op = "prepare_messages"
    /\ skills # <<>>
    /\ Len(state_msgs) = 3
    /\ state_msgs[1].type = "human"
    /\ state_msgs[2].type = "system"
    /\ Len(ret_msgs) = 4
    /\ ret_msgs[3] = state_msgs[2]


\* ---------------------------------------------------------------- claims on discovery

\* A candidate subdirectory that loads: visible, with a skill.py that loads
\* or a SKILL.md that parses.
Loads(entry) ==
    /\ entry.kind = "dir"
    /\ ~entry.hidden
    /\ entry.py = "ok" \/ entry.md = "ok"

\* A candidate subdirectory whose loading fails.
Fails(entry) ==
    /\ entry.kind = "dir"
    /\ ~entry.hidden
    /\ ~Loads(entry)
    /\ entry.py # "absent" \/ entry.md # "absent"

\* C19. Discovery is failure-isolated: discover_from_directory never raises
\* because of a per-skill failure (malformed header, missing required field,
\* module execution error, invalid metadata), and every candidate
\* subdirectory that loads and whose name is not yet registered is
\* registered, wherever the failing candidates stand in the scan. The skills
\* registered before the scan keep their places.
C19_FailureIsolated ==
    [][op' = "discover_from_directory" =>
            /\ err' = "none"
            /\ \A i \in DOMAIN dir_entries :
                    (Loads(dir_entries[i]) /\ ~has(skills, dir_entries[i].name))
                        => has(skills', dir_entries[i].name)
            /\ \A j \in DOMAIN skills : skills'[j] = skills[j]]_vars

\* A scan of [failing skill.py, SKILL.md of a, SKILL.md without description]
\* on a registry that held b alone: a is registered behind b.
C19_Witness ==
    /\ op = "discover_from_directory"
    /\ Len(dir_entries) = 3
    /\ dir_entries[1].py = "exec_error" /\ Fails(dir_entries[1])
    /\ dir_entries[2] = Entry("dir", FALSE, "absent", "ok", "a")
    /\ dir_entries[3].md = "no_description" /\ Fails(dir_entries[3])
    /\ skills = <<PythonSkill("b"), MarkdownSkill("a")>>
    /\ ret_count = 1

\* C20. Discovery count: the integer discover_from_directory returns is the
\* number of skills the call added to the registry (size after minus size
\* before), which is the number of new names among the candidates that load;
\* candidates that fail to load, hidden directories and names already taken
\* add 0. A directory with one well-formed declarative skill and one lacking
\* description returns 1, with only the well-formed skill registered.
C20_DiscoveryCount ==
    [][op' = "discover_from_directory" =>
            /\ ret_count' = Len(skills') - Len(skills)
            /\ ret_count' = Cardinality(
                    {dir_entries[i].name : i \in {k \in DOMAIN dir_entries :
                                                    Loads(dir_entries[k])}}
                        \ {skills[j].name : j \in DOMAIN skills})
            /\ (/\ skills = EmptyRegistry
                /\ Len(dir_entries) = 2
                /\ Range(dir_entries) = {Entry("dir", FALSE, "absent", "ok", "a"),
                                         Entry("dir", FALSE, "absent", "no_description", "c")})
                    => /\ ret_count' = 1
                       /\ skills' = <<MarkdownSkill("a")>>]_vars

\* A scan of [SKILL.md without description, SKILL.md of a] on an empty
\* registry returned 1 and registered a alone.
C20_Witness ==
    /\ op = "discover_from_directory"
    /\ dir_entries = <<Entry("dir", FALSE, "absent", "no_description", "c"),
                       Entry("dir", FALSE, "absent", "ok", "a")>>
    /\ skills = <<MarkdownSkill("a")>>
    /\ ret_count = 1


\* The candidates of the listing that load under a name, in scan order.
LoadingAs(entries, n) ==
    {i \in DOMAIN entries : Loads(entries[i]) /\ entries[i].name = n}

\* The skill a loading candidate yields.
LoadedSkill(entry) ==
    IF entry.py = "ok" THEN PythonSkill(entry.name) ELSE MarkdownSkill(entry.name)

\* C24. Duplicate during discovery: a candidate that loads under a name
\* already registered, before the scan or earlier in it, is skipped without
\* raising; the registry keeps the instance registered first, the candidate
\* is not counted, and the candidates after it are still registered.
C24_DuplicateSkipped ==
    [][op' = "discover_from_directory" =>
            \A i \in DOMAIN dir_entries :
                LET n == dir_entries[i].name
                    taken == \/ has(skills, n)
                             \/ \E k \in LoadingAs(dir_entries, n) : k < i
                IN (Loads(dir_entries[i]) /\ taken) =>
                    /\ err' = "none"
                    /\ has(skills', n)
                    /\ IF has(skills, n)
                       THEN get(skills', n)
                                = get(skills, n)
                       ELSE \E k \in LoadingAs(dir_entries, n) :
                                /\ \A m \in LoadingAs(dir_entries, n) : k <= m
                                /\ get(skills', n)
                                        = LoadedSkill(dir_entries[k])
                    /\ Cardinality({j \in DOMAIN skills' : skills'[j].name = n}) = 1
                    /\ ret_count' = Cardinality({dir_entries[k].name :
                                                    k \in {m \in DOMAIN dir_entries :
                                                              Loads(dir_entries[m])}}
                                                \ {skills[j].name : j \in DOMAIN skills})
                    /\ \A k \in DOMAIN dir_entries :
                            (k > i /\ Loads(dir_entries[k]))
                                => has(skills', dir_entries[k].name)]_vars

\* A scan of [skill.py of a, SKILL.md of b] on a registry that held the
\* declarative a: a is kept as it was, b is registered and 1 is returned.
C24_Witness ==
    /\ op = "discover_from_directory"
    /\ dir_entries = <<Entry("dir", FALSE, "ok", "absent", "a"),
                       Entry("dir", FALSE, "absent", "ok", "b")>>
    /\ skills = <<MarkdownSkill("a"), MarkdownSkill("b")>>
    /\ ret_count = 1

\* The candidates that hold both skill.py and SKILL.md and whose name no
\* registered skill and no other candidate of the listing bears: what the
\* scan registers under the name comes from this directory.
BothPresent(entries, sk) ==
    {i \in DOMAIN entries :
        /\ entries[i].kind = "dir"
        /\ ~entries[i].hidden
        /\ entries[i].py # "absent"
        /\ entries[i].md # "absent"
        /\ ~has(sk, entries[i].name)
        /\ \A k \in DOMAIN entries : entries[k].name = entries[i].name => k = i}

\* C25 as stated. Loader precedence: when a skill directory holds both
\* skill.py and SKILL.md, the skill discover_from_directory registers for the
\* directory, if any, is the one programmatic loading produced; the result
\* of the declarative file is not used for that directory.
C25_ProgrammaticOnly ==
    [][op' = "discover_from_directory" =>
            \A i \in BothPresent(dir_entries, skills) :
                has(skills', dir_entries[i].name)
                    => get(skills', dir_entries[i].name)
                            = PythonSkill(dir_entries[i].name)]_vars

\* C25, amended. When a skill directory holds both skill.py and SKILL.md,
\* the skill registered for it is the programmatic one whenever programmatic
\* loading yields a skill; when programmatic loading fails, the declarative
\* file is loaded instead and its skill, if it loads, is registered.
C25_ProgrammaticFirst ==
    [][op' = "discover_from_directory" =>
            \A i \in BothPresent(dir_entries, skills) :
                LET n == dir_entries[i].name
                IN IF dir_entries[i].py = "ok"
                   THEN has(skills', n) /\ get(skills', n) = PythonSkill(n)
                   ELSE IF dir_entries[i].md = "ok"
                        THEN has(skills', n) /\ get(skills', n) = MarkdownSkill(n)
                   ELSE ~has(skills', n)]_vars

\* A scan of [skill.py and SKILL.md of b, failing skill.py and SKILL.md of
\* a] on an empty registry: the programmatic b and the declarative a are
\* registered.
C25_Witness ==
    /\ op = "discover_from_directory"
    /\ dir_entries = <<Entry("dir", FALSE, "ok", "ok", "b"),
                       Entry("dir", FALSE, "exec_error", "ok", "a")>>
    /\ skills = <<PythonSkill("b"), MarkdownSkill("a")>>
    /\ ret_count = 2

\* ---------------------------------------------------------------- claims on the discovery root

\* C21. Discovery path safety: a candidate subdirectory of the discovery root
\* that resolves, after symlink resolution, outside the root is never loaded
\* and never registered by discover_from_directory, even when it holds a
\* well-formed skill file: every name a scan adds comes from a candidate
\* that loads and resolves inside the root.
C21_PathSafety ==
    [][op' = "discover_from_directory" =>
            \A n \in {skills'[j].name : j \in DOMAIN skills'}
                        \ {skills[j].name : j \in DOMAIN skills} :
                \E i \in DOMAIN dir_entries :
                    /\ dir_entries[i].name = n
                    /\ Loads(dir_entries[i])
                    /\ is_safe_path(dir_entries[i])]_vars


\* ---------------------------------------------------------------- claims on metadata

\* C22. Over-length name: constructing SkillMetadata with a name longer than
\* 64 characters raises SkillMetadataError, so no skill with such a name is
\* constructed or registered through loading; a name of exactly 64 characters
\* is accepted.
C22_NameLimit ==
    /\ op = "SkillMetadata" =>
            IF Len(meta_name) > 64
            THEN err = "SkillMetadataError" /\ meta = <<>>
            ELSE err = "none" /\ meta # <<>> /\ meta[1].name = meta_name
    /\ op = "load_markdown_skill" =>
            /\ Len(meta_name) > 64 => meta = <<>> /\ skills = EmptyRegistry
            /\ (Len(meta_name) = 64 /\ meta_name[1] # "-" /\ meta_desc # <<>>) =>
                    skills = <<MarkdownSkill(meta_name)>>
    /\ \A j \in DOMAIN skills : Len(skills[j].name) <= 64

\* SkillMetadata was refused for a name of 65 characters.
C22_Witness ==
    /\ op = "SkillMetadata"
    /\ Len(meta_name) = 65
    /\ err = "SkillMetadataError"

\* C23. Description truncation: constructing SkillMetadata with a
\* description longer than 1024 characters raises no error and stores exactly
\* its first 1024 characters; a description of at most 1024 characters is
\* stored unchanged.
C23_DescriptionTruncation ==
    (op = "SkillMetadata" /\ Len(meta_name) <= 64) =>
        /\ err = "none"
        /\ meta # <<>>
        /\ IF Len(meta_desc) > 1024
           THEN /\ Len(meta[1].description) = 1024
                /\ \A i \in 1..1024 : meta[1].description[i] = meta_desc[i]
           ELSE meta[1].description = meta_desc

\* SkillMetadata was constructed from a description of 1025 characters and
\* holds 1024 of them.
C23_Witness ==
    /\ op = "SkillMetadata"
    /\ err = "none"
    /\ Len(meta_desc) = 1025
    /\ Len(meta[1].description) = 1024


\* ---------------------------------------------------------------- claims on loader tools

C27_FreshSkillInactive ==
    [][(op' = "register" /\ err' = "none") =>
            \A j \in DOMAIN skills' :
                ~has(skills, skills'[j].name) =>
                    \A t \in Range(get_tools(skills'[j])) :
                        t \notin Range(filter_tools_for_state(skills', state_skills',
                                                              AdditionalTools))]_vars


\* ---------------------------------------------------------------- claims on the instructions switch

\* The active skills whose instructions the prompt may carry: registered,
\* enabled, with instructions that are not empty.
ActiveWithInstructions ==
    {j \in DOMAIN skills : /\ skills[j].name \in Range(state_skills)
                           /\ skills[j].enabled
                           /\ get_instructions(skills[j]) # EmptyText}

\* The returned messages that carry the instruction text of a skill.
CarryingInstructions ==
    {i \in DOMAIN ret_msgs :
        \E j \in DOMAIN skills :
            /\ get_instructions(skills[j]) # EmptyText
            /\ Range(get_instructions(skills[j])) \subseteq Range(ret_msgs[i].content.text)}

\* C28. include_skill_instructions switch: for a SkillMiddleware constructed
\* with include_skill_instructions=False the messages prepare_messages
\* returns never contain the instruction text of active skills; with the
\* default True they contain it for every active enabled skill whose
\* instructions are not empty.
C28_InstructionsSwitch ==
    op = "prepare_messages" =>
        IF include_skill_instructions
        THEN ActiveWithInstructions # {} => CarryingInstructions # {}
        ELSE CarryingInstructions = {}


\* ---------------------------------------------------------------- claims on the visible surface

\* Every element of s is in t, and the elements of s stand in t in the
\* order they have in s: the places they take in t go up along s.
InSameOrder(s, t) ==
    /\ \A p \in DOMAIN s : \E q \in DOMAIN t : t[q] = s[p]
    /\ \A p \in 1..(Len(s) - 1) : FirstIdx(t, s[p]) < FirstIdx(t, s[p + 1])

\* C29. Visible surface only grows: for a fixed registry, if every name of
\* active list A is in active list B, every tool of
\* get_tools_for_active_skills(A) is in get_tools_for_active_skills(B) in the
\* same relative order; hence after a reducer merge of any update into A no
\* tool that was visible is missing.
C29_SurfaceGrows ==
    IsQuery =>
        /\ \A B \in SeqsUpTo(ActiveNames, MaxActive) :
                Range(active_arg) \subseteq Range(B)
                    => InSameOrder(ret_tools, get_tools_for_active_skills(skills, B))
        /\ \A new_skills \in SeqsUpTo(ActiveNames, MaxActive) :
                InSameOrder(ret_tools,
                            get_tools_for_active_skills(
                                skills, skill_list_reducer(active_arg, new_skills)))

\* A query with active_names = [a] returned a's capability tools on a
\* registry where activating b as well makes more tools visible.
C29_Witness ==
    /\ IsQuery
    /\ active_arg = <<"a">>
    /\ \E i \in DOMAIN ret_tools : ret_tools[i].kind = "cap" /\ ret_tools[i].skill = "a"
    /\ Len(get_tools_for_active_skills(skills, <<"a", "b">>)) > Len(ret_tools)


\* ---------------------------------------------------------------- claims on the session store

====
